---- MODULE Spec2Model ----
(***************************************************************************)
(* Model of the frontend TreeCache (tree_cache.js): the entity store, the  *)
(* batch merge addResp, the lazy loader getNotes/reloadNotes, the payload  *)
(* cache getNoteComplement and the sync reconciler processSyncRows.        *)
(*                                                                         *)
(* A JavaScript object used as a map (this.notes, this.branches,           *)
(* note.parentToBranch, ...) is a function whose DOMAIN is the set of keys *)
(* present: `id \in DOMAIN notes` is "this.notes[id] is truthy", and a     *)
(* `delete` of a key that is absent changes nothing.  A JavaScript array   *)
(* is a sequence.                                                          *)
(***************************************************************************)
EXTENDS Integers, Sequences, FiniteSets, TLC

VARIABLES
    notes,                  \* this.notes: noteId -> NoteShort
    branches,               \* this.branches: branchId -> Branch
    attributes,             \* this.attributes: attributeId -> Attribute
    noteComplementPromises, \* this.noteComplementPromises: noteId -> fetch number
    fetches,                \* noteId -> number of server.get('notes/' + id) issued
    evictions,              \* noteId -> number of entries deleted by note_contents events
    pendingFetches,         \* the payload fetches <<noteId, number>> not yet answered
    payloadCalls,           \* the getNoteComplement calls: the promise each one awaits
    tasks,                  \* the getNotes and reloadNotes calls made from outside
    requests,               \* the requests sent to the server, in order
    getNotesCalls,          \* every getNotes call: its ids and the notes resident at its start
    serverMoved,            \* the server has moved note R2 to another parent
    triggered,              \* change-sets handed to appContext.trigger by the last call
    raised,                 \* the last call ended in a TypeError
    last,                   \* the last call: its name, its input, the store it started from
    steps                   \* number of calls made so far

loaderVars == <<tasks, requests, getNotesCalls, serverMoved>>

payloadVars == <<noteComplementPromises, fetches, evictions, pendingFetches, payloadCalls>>

vars == <<notes, branches, attributes, noteComplementPromises, fetches, evictions,
          pendingFetches, payloadCalls, tasks, requests, getNotesCalls, serverMoved,
          triggered, raised, last, steps>>

----------------------------------------------------------------------------
(* JavaScript helpers *)

\* obj[k] = v
Put(f, k, v) == [x \in (DOMAIN f) \cup {k} |-> IF x = k THEN v ELSE f[x]]

\* delete obj[k]
Del(f, k) == [x \in (DOMAIN f) \ {k} |-> f[x]]

\* arr.filter(e => e !== x)
Without(s, x) == SelectSeq(s, LAMBDA e : e # x)

\* arr.includes(x)
Includes(s, x) == \E i \in 1..Len(s) : s[i] = x

\* if (!arr.includes(x)) arr.push(x)
PushNew(s, x) == IF Includes(s, x) THEN s ELSE Append(s, x)

\* the elements of an array
Elems(s) == {s[i] : i \in 1..Len(s)}

\* an array holds no element twice
NoDup(s) == \A i, j \in 1..Len(s) : s[i] = s[j] => i = j

----------------------------------------------------------------------------
(* Entities *)

\* new NoteShort(treeCache, row): the row's fields and empty adjacency
NoteShort(row) ==
    [noteId |-> row.noteId, type |-> row.type, title |-> row.title,
     parents |-> <<>>, children |-> <<>>,
     parentToBranch |-> <<>>, childToBranch |-> <<>>,
     attributes |-> <<>>, targetRelations |-> <<>>]

\* note.update(row): the row's fields, adjacency and indices kept
NoteUpdate(note, row) == [note EXCEPT !.type = row.type, !.title = row.title]

\* note.addParent(parentNoteId, branchId)
addParent(note, parentNoteId, branchId) ==
    [note EXCEPT !.parents = PushNew(@, parentNoteId),
                 !.parentToBranch = Put(@, parentNoteId, branchId)]

\* note.addChild(childNoteId, branchId)
addChild(note, childNoteId, branchId) ==
    [note EXCEPT !.children = PushNew(@, childNoteId),
                 !.childToBranch = Put(@, childNoteId, branchId)]

\* new Branch(treeCache, row), and branch.update(row)
Branch(row) ==
    [branchId |-> row.branchId, noteId |-> row.noteId,
     parentNoteId |-> row.parentNoteId, prefix |-> row.prefix,
     notePosition |-> row.notePosition]

\* new Attribute(treeCache, row), and attribute.update(row)
Attribute(row) ==
    [attributeId |-> row.attributeId, noteId |-> row.noteId,
     type |-> row.type, name |-> row.name, value |-> row.value]

----------------------------------------------------------------------------
(* The store a call works on: the three maps, and whether the call raised *)

Store(n, b, a) == [notes |-> n, branches |-> b, attributes |-> a, raised |-> FALSE]

EmptyStore == Store(<<>>, <<>>, <<>>)

Resident(st, noteId) == noteId \in DOMAIN st.notes

----------------------------------------------------------------------------
(* addResp, lines 42-116 *)

\* lines 49-58: one turn of the loop over oldNote.children
DetachChild(st, noteId, childNoteId) ==
    IF ~Resident(st, childNoteId) THEN st
    ELSE LET childNote == st.notes[childNoteId]
             brs == IF noteId \in DOMAIN childNote.parentToBranch
                    THEN Del(st.branches, childNote.parentToBranch[noteId])
                    ELSE st.branches
         IN [st EXCEPT
               !.notes = Put(@, childNoteId,
                             [childNote EXCEPT !.parents = Without(@, noteId),
                                               !.parentToBranch = Del(@, noteId)]),
               !.branches = brs]

\* lines 60-69: one turn of the loop over oldNote.parents
DetachParent(st, noteId, parentNoteId) ==
    IF ~Resident(st, parentNoteId) THEN st
    ELSE LET parentNote == st.notes[parentNoteId]
             brs == IF noteId \in DOMAIN parentNote.childToBranch
                    THEN Del(st.branches, parentNote.childToBranch[noteId])
                    ELSE st.branches
         IN [st EXCEPT
               !.notes = Put(@, parentNoteId,
                             [parentNote EXCEPT !.children = Without(@, noteId),
                                                !.childToBranch = Del(@, noteId)]),
               !.branches = brs]

RECURSIVE DetachChildren(_, _, _)
DetachChildren(st, noteId, ids) ==
    IF ids = <<>> THEN st
    ELSE DetachChildren(DetachChild(st, noteId, Head(ids)), noteId, Tail(ids))

RECURSIVE DetachParents(_, _, _)
DetachParents(st, noteId, ids) ==
    IF ids = <<>> THEN st
    ELSE DetachParents(DetachParent(st, noteId, Head(ids)), noteId, Tail(ids))

\* lines 46-70: the old note is taken out of its neighbours' adjacency.  The
\* second loop reads oldNote.parents after the first loop has run.
DetachOldNote(st, noteId) ==
    IF ~Resident(st, noteId) THEN st
    ELSE LET s1 == DetachChildren(st, noteId, st.notes[noteId].children)
         IN DetachParents(s1, noteId, s1.notes[noteId].parents)

\* lines 43-75: one note row
AddNoteRow(st, noteRow) ==
    LET s1 == DetachOldNote(st, noteRow.noteId)
    IN [s1 EXCEPT !.notes = Put(@, noteRow.noteId, NoteShort(noteRow))]

\* WireBranch that adds the parent and the child without looking for them
WireBranchAppending(nts, branch) ==
    LET n1 == IF branch.noteId \in DOMAIN nts
              THEN Put(nts, branch.noteId,
                       [nts[branch.noteId] EXCEPT
                           !.parents = Append(@, branch.parentNoteId),
                           !.parentToBranch = Put(@, branch.parentNoteId, branch.branchId)])
              ELSE nts
    IN IF branch.parentNoteId \in DOMAIN n1
       THEN Put(n1, branch.parentNoteId,
                [n1[branch.parentNoteId] EXCEPT
                    !.children = Append(@, branch.noteId),
                    !.childToBranch = Put(@, branch.noteId, branch.branchId)])
       ELSE n1

\* lines 82-92 (and 266-272, 282-288): wire a branch to its resident endpoints
WireBranch(nts, branch) ==
    LET n1 == IF branch.noteId \in DOMAIN nts
              THEN Put(nts, branch.noteId,
                       addParent(nts[branch.noteId], branch.parentNoteId, branch.branchId))
              ELSE nts
    IN IF branch.parentNoteId \in DOMAIN n1
       THEN Put(n1, branch.parentNoteId,
                addChild(n1[branch.parentNoteId], branch.noteId, branch.branchId))
       ELSE n1

\* lines 77-93: one branch row
AddBranchRow(st, branchRow) ==
    LET branch == Branch(branchRow)
    IN [st EXCEPT !.branches = Put(@, branch.branchId, branch),
                  !.notes = WireBranch(@, branch)]

\* lines 106-114: a relation whose target note is resident is indexed
IndexRelation(note, attributeRow, nts) ==
    IF attributeRow.type = "relation" /\ attributeRow.value \in DOMAIN nts
    THEN [note EXCEPT !.targetRelations = PushNew(@, attributeRow.attributeId)]
    ELSE note

\* AddAttributeRow without the includes() test of line 102
AddAttributeRowNoTest(st, attributeRow) ==
    LET s1 == [st EXCEPT !.attributes =
                   Put(@, attributeRow.attributeId, Attribute(attributeRow))]
    IN IF ~Resident(s1, attributeRow.noteId)
       THEN [s1 EXCEPT !.raised = TRUE]
       ELSE LET note == s1.notes[attributeRow.noteId]
                n1 == [note EXCEPT !.attributes = Append(@, attributeRow.attributeId)]
            IN [s1 EXCEPT !.notes =
                    Put(@, attributeRow.noteId, IndexRelation(n1, attributeRow, s1.notes))]

\* lines 95-115: one attribute row.  this.notes[attributeRow.noteId] is
\* undefined for a non-resident owner, and reading .attributes of it raises.
AddAttributeRow(st, attributeRow) ==
    LET s1 == [st EXCEPT !.attributes =
                   Put(@, attributeRow.attributeId, Attribute(attributeRow))]
    IN IF ~Resident(s1, attributeRow.noteId)
       THEN [s1 EXCEPT !.raised = TRUE]
       ELSE LET note == s1.notes[attributeRow.noteId]
                n1 == [note EXCEPT !.attributes = PushNew(@, attributeRow.attributeId)]
            IN [s1 EXCEPT !.notes =
                    Put(@, attributeRow.noteId, IndexRelation(n1, attributeRow, s1.notes))]

RECURSIVE AddNoteRows(_, _)
AddNoteRows(st, rows) ==
    IF rows = <<>> THEN st ELSE AddNoteRows(AddNoteRow(st, Head(rows)), Tail(rows))

RECURSIVE AddBranchRows(_, _)
AddBranchRows(st, rows) ==
    IF rows = <<>> THEN st ELSE AddBranchRows(AddBranchRow(st, Head(rows)), Tail(rows))

\* the loop stops at the first row that raises
RECURSIVE AddAttributeRows(_, _)
AddAttributeRows(st, rows) ==
    IF rows = <<>> \/ st.raised THEN st
    ELSE AddAttributeRows(AddAttributeRow(st, Head(rows)), Tail(rows))

\* addResp(noteRows, branchRows, attributeRows)
addResp(st, noteRows, branchRows, attributeRows) ==
    AddAttributeRows(AddBranchRows(AddNoteRows(st, noteRows), branchRows), attributeRows)

----------------------------------------------------------------------------
(* LoadResults: the change-set of one processSyncRows call, one list of    *)
(* {entityId, sourceId} entries per kind                                   *)

LoadResults ==
    [notes |-> <<>>, branches |-> <<>>, noteReorderings |-> <<>>,
     attributes |-> <<>>, noteContents |-> <<>>, noteRevisions |-> <<>>]

Entry(sync) == [entityId |-> sync.entityId, sourceId |-> sync.sourceId]

\* the state one processSyncRows call works on: the store, the payload cache
\* with its eviction counts, the change-set being built, what was triggered
SyncState(st, promises, evicted) ==
    [notes |-> st.notes, branches |-> st.branches, attributes |-> st.attributes,
     raised |-> FALSE, promises |-> promises, evicted |-> evicted,
     loadResults |-> LoadResults, triggered |-> <<>>]

----------------------------------------------------------------------------
(* processSyncRows, lines 233-355 *)

\* SyncNote that puts a new note object in the place of the resident one
SyncNoteReplacing(sy, sync) ==
    IF sync.entityId \in DOMAIN sy.notes
    THEN [sy EXCEPT !.notes = Put(@, sync.entityId, NoteShort(sync.entity)),
                    !.loadResults.notes = Append(@, Entry(sync))]
    ELSE sy

\* lines 236-243: a note event
SyncNote(sy, sync) ==
    IF sync.entityId \in DOMAIN sy.notes
    THEN [sy EXCEPT !.notes = Put(@, sync.entityId, NoteUpdate(@[sync.entityId], sync.entity)),
                    !.loadResults.notes = Append(@, Entry(sync))]
    ELSE sy

\* lines 251-261: a deleted branch that is in the store
UnwireBranch(nts, entity) ==
    LET n1 == IF entity.noteId \in DOMAIN nts
              THEN Put(nts, entity.noteId,
                       [nts[entity.noteId] EXCEPT
                           !.parents = Without(@, entity.parentNoteId),
                           !.parentToBranch = Del(@, entity.parentNoteId)])
              ELSE nts
    IN IF entity.parentNoteId \in DOMAIN n1
       THEN Put(n1, entity.parentNoteId,
                [n1[entity.parentNoteId] EXCEPT
                    !.children = Without(@, entity.noteId),
                    !.childToBranch = Del(@, entity.noteId)])
       ELSE n1

\* lines 250-261
SyncDeletedBranch(sy, sync) == [sy EXCEPT !.notes = UnwireBranch(@, sync.entity)]

\* lines 262-273: branch.update(sync.entity), then the adjacency is wired
SyncUpdatedBranch(sy, sync) ==
    LET branch == Branch(sync.entity)
    IN [sy EXCEPT !.branches = Put(@, sync.entityId, branch),
                  !.loadResults.branches = Append(@, Entry(sync)),
                  !.notes = WireBranch(@, branch)]

\* SyncAbsentBranch without the residency test of line 276
SyncAbsentBranchUnguarded(sy, sync) ==
    LET branch == Branch(sync.entity)
    IN [sy EXCEPT !.branches = Put(@, branch.branchId, branch),
                  !.loadResults.branches = Append(@, Entry(sync)),
                  !.notes = WireBranch(@, branch)]

\* lines 275-290: a branch that is not in the store
SyncAbsentBranch(sy, sync) ==
    IF sync.entity.noteId \in DOMAIN sy.notes \/ sync.entity.parentNoteId \in DOMAIN sy.notes
    THEN LET branch == Branch(sync.entity)
         IN [sy EXCEPT !.branches = Put(@, branch.branchId, branch),
                       !.loadResults.branches = Append(@, Entry(sync)),
                       !.notes = WireBranch(@, branch)]
    ELSE sy

\* lines 245-291: a branch event
SyncBranch(sy, sync) ==
    IF sync.entityId \in DOMAIN sy.branches
    THEN IF sync.entity.isDeleted THEN SyncDeletedBranch(sy, sync)
         ELSE SyncUpdatedBranch(sy, sync)
    ELSE IF ~sync.entity.isDeleted THEN SyncAbsentBranch(sy, sync)
         ELSE sy

\* lines 293-303: a reordering event
SyncReordering(sy, sync) ==
    [sy EXCEPT
       !.branches = [b \in DOMAIN @ |->
                        IF b \in DOMAIN sync.positions
                        THEN [@[b] EXCEPT !.notePosition = sync.positions[b]]
                        ELSE @[b]],
       !.loadResults.noteReorderings = Append(@, Entry(sync))]

\* line 309: sync.entity.type === 'relation' && this.notes[sync.entity.value]
HasTargetNote(nts, entity) == entity.type = "relation" /\ entity.value \in DOMAIN nts

\* lines 311-324: an attribute that is in the store
SyncKnownAttribute(sy, sync) ==
    LET attribute == Attribute(sync.entity)
        n0 == sy.notes
        n1 == IF sync.entity.isDeleted /\ sync.entity.noteId \in DOMAIN n0
              THEN Put(n0, sync.entity.noteId,
                       [n0[sync.entity.noteId] EXCEPT
                           !.attributes = Without(@, attribute.attributeId)])
              ELSE n0
        n2 == IF sync.entity.isDeleted /\ HasTargetNote(n0, sync.entity)
              THEN Put(n1, sync.entity.value,
                       [n1[sync.entity.value] EXCEPT
                           !.targetRelations = Without(@, attribute.value)])
              ELSE n1
    IN [sy EXCEPT !.attributes = Put(@, sync.entityId, attribute),
                  !.loadResults.attributes = Append(@, Entry(sync)),
                  !.notes = n2]

\* lines 325-341: an attribute that is not in the store
SyncAbsentAttribute(sy, sync) ==
    IF sync.entity.noteId \in DOMAIN sy.notes \/ HasTargetNote(sy.notes, sync.entity)
    THEN LET attribute == Attribute(sync.entity)
             n0 == sy.notes
             n1 == IF sync.entity.noteId \in DOMAIN n0
                   THEN Put(n0, sync.entity.noteId,
                            [n0[sync.entity.noteId] EXCEPT
                                !.attributes = PushNew(@, attribute.attributeId)])
                   ELSE n0
             n2 == IF HasTargetNote(n0, sync.entity)
                   THEN Put(n1, sync.entity.value,
                            [n1[sync.entity.value] EXCEPT
                                !.attributes = PushNew(@, attribute.attributeId)])
                   ELSE n1
         IN [sy EXCEPT !.attributes = Put(@, attribute.attributeId, attribute),
                       !.loadResults.attributes = Append(@, Entry(sync)),
                       !.notes = n2]
    ELSE sy

\* lines 306-342: an attribute event
SyncAttribute(sy, sync) ==
    IF sync.entityId \in DOMAIN sy.attributes THEN SyncKnownAttribute(sy, sync)
    ELSE IF ~sync.entity.isDeleted THEN SyncAbsentAttribute(sy, sync)
         ELSE sy

\* lines 344-348: a note-content event evicts the payload cache entry
SyncNoteContent(sy, sync) ==
    [sy EXCEPT !.promises = Del(@, sync.entityId),
               !.evicted = IF sync.entityId \in DOMAIN sy.promises
                           THEN Put(@, sync.entityId, @[sync.entityId] + 1)
                           ELSE @,
               !.loadResults.noteContents = Append(@, Entry(sync))]

\* lines 350-352: a note-revision event
SyncNoteRevision(sy, sync) ==
    [sy EXCEPT !.loadResults.noteRevisions = Append(@, Entry(sync))]

\* the handler of one event, by its kind
SyncEvent(sy, sync) ==
    CASE sync.entityName = "notes" -> SyncNote(sy, sync)
      [] sync.entityName = "branches" -> SyncBranch(sy, sync)
      [] sync.entityName = "note_reordering" -> SyncReordering(sy, sync)
      [] sync.entityName = "attributes" -> SyncAttribute(sy, sync)
      [] sync.entityName = "note_contents" -> SyncNoteContent(sy, sync)
      [] sync.entityName = "note_revisions" -> SyncNoteRevision(sy, sync)

RECURSIVE SyncEvents(_, _)
SyncEvents(sy, syncRows) ==
    IF syncRows = <<>> THEN sy
    ELSE SyncEvents(SyncEvent(sy, Head(syncRows)), Tail(syncRows))

\* syncRows.filter(sync => sync.entityName === kind)
OfKind(syncRows, kind) == SelectSeq(syncRows, LAMBDA sync : sync.entityName = kind)

\* the order of the six filter(...).forEach(...) passes
KindOrder ==
    <<"notes", "branches", "note_reordering", "attributes", "note_contents",
      "note_revisions">>

RECURSIVE SyncPasses(_, _, _)
SyncPasses(sy, syncRows, kinds) ==
    IF kinds = <<>> THEN sy
    ELSE SyncPasses(SyncEvents(sy, OfKind(syncRows, Head(kinds))), syncRows, Tail(kinds))

\* SyncAll handling the events in their order of arrival
SyncAllInArrivalOrder(sy, syncRows) == SyncEvents(sy, syncRows)

\* lines 236-352: the six passes over the batch
SyncAll(sy, syncRows) == SyncPasses(sy, syncRows, KindOrder)

\* Trigger that tells the observers only of a change-set that is not empty
TriggerIfChanged(sy) ==
    IF sy.loadResults = LoadResults THEN sy
    ELSE [sy EXCEPT !.triggered = Append(@, sy.loadResults)]

\* line 354: appContext.trigger('entitiesReloaded', {loadResults})
Trigger(sy) == [sy EXCEPT !.triggered = Append(@, sy.loadResults)]

\* processSyncRows(syncRows)
processSyncRows(sy, syncRows) == Trigger(SyncAll(sy, syncRows))

----------------------------------------------------------------------------
(* Inputs: the rows a server can send and the events a sync feed can carry *)

MaxNoteRows == 1
MaxBranchRows == 1
MaxAttributeRows == 1
MaxSyncRows == 2
MaxSteps == 2

NoteIds == {"A", "P1", "P2"}
BranchIds == {"B1", "B2"}

\* sequences of length at most n over S
SeqsUpTo(S, n) == UNION {[1..k -> S] : k \in 0..n}

NoteRow(noteId, title) == [noteId |-> noteId, type |-> "text", title |-> title]

BranchRow(branchId, noteId, parentNoteId, notePosition) ==
    [branchId |-> branchId, noteId |-> noteId, parentNoteId |-> parentNoteId,
     prefix |-> "", notePosition |-> notePosition]

LabelRow(attributeId, noteId) ==
    [attributeId |-> attributeId, noteId |-> noteId, type |-> "label",
     name |-> "l", value |-> "v"]

RelationRow(attributeId, noteId, target) ==
    [attributeId |-> attributeId, noteId |-> noteId, type |-> "relation",
     name |-> "r", value |-> target]

NoteRows == {NoteRow(n, "t1") : n \in NoteIds}

\* note A under parent P1 or P2, through branch B1 or B2
BranchRows == {BranchRow(b, "A", p, 10) : b \in BranchIds, p \in {"P1", "P2"}}

AttributeRows == {LabelRow("L1", "P2"), RelationRow("R1", "A", "P1")}

Batches ==
    {[noteRows |-> n, branchRows |-> b, attributeRows |-> a] :
        n \in SeqsUpTo(NoteRows, MaxNoteRows),
        b \in SeqsUpTo(BranchRows, MaxBranchRows),
        a \in SeqsUpTo(AttributeRows, MaxAttributeRows)}

Deleted(row, isDeleted) ==
    [f \in (DOMAIN row) \cup {"isDeleted"} |-> IF f = "isDeleted" THEN isDeleted ELSE row[f]]

SyncRow(entityName, entityId, entity) ==
    [entityName |-> entityName, entityId |-> entityId, entity |-> entity,
     sourceId |-> "src"]

NoteEvents == {SyncRow("notes", n, Deleted(NoteRow(n, "t2"), FALSE)) : n \in {"A"}}

\* B1 created or updated under P1 or under P2, B1 deleted, B2 created or updated
BranchEvents ==
    {SyncRow("branches", "B1", Deleted(BranchRow("B1", "A", "P1", 10), d)) : d \in BOOLEAN}
        \cup {SyncRow("branches", r.branchId, Deleted(r, FALSE)) :
                r \in {BranchRow("B1", "A", "P2", 10), BranchRow("B2", "A", "P2", 10)}}

ReorderingEvents ==
    {[entityName |-> "note_reordering", entityId |-> "P1",
      positions |-> [b \in {"B1"} |-> 20], sourceId |-> "src"]}

AttributeEvents ==
    {SyncRow("attributes", "R1", Deleted(RelationRow("R1", "A", "P1"), d)) : d \in BOOLEAN}

NoteContentEvents ==
    {[entityName |-> "note_contents", entityId |-> n, sourceId |-> "src"] : n \in {"A"}}

NoteRevisionEvents ==
    {[entityName |-> "note_revisions", entityId |-> "V1", noteId |-> "A", sourceId |-> "src"]}

SyncRows ==
    NoteEvents \cup BranchEvents \cup ReorderingEvents \cup AttributeEvents
        \cup NoteContentEvents \cup NoteRevisionEvents

SyncBatches == SeqsUpTo(SyncRows, MaxSyncRows)

\* the trees the first server.get('tree') can answer with: nothing, one
\* note with the branch to its parent that is not loaded, a whole tree
InitialTrees ==
    {[noteRows |-> <<>>, branchRows |-> <<>>, attributeRows |-> <<>>],
     [noteRows |-> <<NoteRow("A", "t1")>>,
      branchRows |-> <<BranchRow("B1", "A", "P1", 10)>>,
      attributeRows |-> <<>>],
     [noteRows |-> <<NoteRow("P1", "t1"), NoteRow("P2", "t1"), NoteRow("A", "t1")>>,
      branchRows |-> <<BranchRow("B1", "A", "P1", 10)>>,
      attributeRows |-> <<RelationRow("R1", "A", "P1")>>]}

----------------------------------------------------------------------------
(* The store as one value *)

CurrentStore == Store(notes, branches, attributes)

NoFetches == [n \in NoteIds |-> 0]

\* loadInitialTree, lines 22-40
loadInitialTree(tree) ==
    addResp(EmptyStore, tree.noteRows, tree.branchRows, tree.attributeRows)

Init ==
    \E tree \in InitialTrees :
        LET st == loadInitialTree(tree)
        IN /\ notes = st.notes
           /\ branches = st.branches
           /\ attributes = st.attributes
           /\ raised = st.raised
           /\ noteComplementPromises = <<>>
           /\ fetches = NoFetches
           /\ evictions = NoFetches
           /\ pendingFetches = {}
           /\ payloadCalls = <<>>
           /\ tasks = <<>>
           /\ requests = <<>>
           /\ getNotesCalls = <<>>
           /\ serverMoved = FALSE
           /\ triggered = <<>>
           /\ last = [op |-> "loadInitialTree"]
           /\ steps = 0

\* a call of addResp with a batch of rows
AddResp ==
    /\ steps < MaxSteps
    /\ \E batch \in Batches :
        LET st == addResp(CurrentStore, batch.noteRows, batch.branchRows,
                          batch.attributeRows)
        IN /\ notes' = st.notes
           /\ branches' = st.branches
           /\ attributes' = st.attributes
           /\ raised' = st.raised
           /\ last' = [op |-> "addResp", batch |-> batch]
    /\ triggered' = <<>>
    /\ steps' = steps + 1
    /\ UNCHANGED <<payloadVars, loaderVars>>

\* a call of processSyncRows with a batch of events
ProcessSyncRowsOf(batches) ==
    /\ \E syncRows \in batches :
        LET sy == processSyncRows(
                      SyncState(CurrentStore, noteComplementPromises, evictions),
                      syncRows)
        IN /\ notes' = sy.notes
           /\ branches' = sy.branches
           /\ attributes' = sy.attributes
           /\ raised' = sy.raised
           /\ noteComplementPromises' = sy.promises
           /\ evictions' = sy.evicted
           /\ triggered' = sy.triggered
           /\ last' = [op |-> "processSyncRows", syncRows |-> syncRows]
    /\ steps' = steps + 1
    /\ UNCHANGED <<fetches, pendingFetches, payloadCalls, loaderVars>>

ProcessSyncRows ==
    /\ steps < MaxSteps
    /\ ProcessSyncRowsOf(SyncBatches)

Next == AddResp \/ ProcessSyncRows

Spec == Init /\ [][Next]_vars

----------------------------------------------------------------------------
(* The payload cache: getNoteComplement, lines 224-230 *)

MaxPayloadCalls == 3
MaxPayloadSteps == 4

PayloadNoteIds == {"A", "P1"}

\* the cache and the fetch counts of one getNoteComplement call
PayloadCache(promises, fetched) == [promises |-> promises, fetches |-> fetched]

\* getNoteComplement that fetches on every call
getNoteComplementUncached(pc, noteId) ==
    [pc EXCEPT !.fetches = Put(@, noteId, @[noteId] + 1),
               !.promises = Put(@, noteId, pc.fetches[noteId] + 1)]

\* lines 225-227: the entry is the promise of a fetch, made when there is none
getNoteComplement(pc, noteId) ==
    IF noteId \notin DOMAIN pc.promises
    THEN [pc EXCEPT !.fetches = Put(@, noteId, @[noteId] + 1),
                    !.promises = Put(@, noteId, pc.fetches[noteId] + 1)]
    ELSE pc

\* a call of getNoteComplement up to its await of the promise in the cache
GetNoteComplement ==
    /\ steps < MaxPayloadSteps
    /\ Len(payloadCalls) < MaxPayloadCalls
    /\ \E noteId \in PayloadNoteIds :
        LET pc == getNoteComplement(PayloadCache(noteComplementPromises, fetches), noteId)
            promise == <<noteId, pc.promises[noteId]>>
        IN /\ noteComplementPromises' = pc.promises
           /\ fetches' = pc.fetches
           /\ pendingFetches' = IF pc.fetches[noteId] > fetches[noteId]
                                THEN pendingFetches \cup {promise}
                                ELSE pendingFetches
           /\ payloadCalls' = Append(payloadCalls,
                                     [promise |-> promise,
                                      done |-> pc.fetches[noteId] = fetches[noteId]
                                               /\ promise \notin pendingFetches])
           /\ last' = [op |-> "getNoteComplement", noteId |-> noteId]
    /\ steps' = steps + 1
    /\ triggered' = <<>>
    /\ raised' = FALSE
    /\ UNCHANGED <<notes, branches, attributes, evictions, loaderVars>>

\* the server answers a payload fetch: the promise settles, its awaiters go on
ResolveFetch ==
    /\ \E promise \in pendingFetches :
        /\ pendingFetches' = pendingFetches \ {promise}
        /\ payloadCalls' = [i \in 1..Len(payloadCalls) |->
                               IF payloadCalls[i].promise = promise
                               THEN [payloadCalls[i] EXCEPT !.done = TRUE]
                               ELSE payloadCalls[i]]
    /\ UNCHANGED <<notes, branches, attributes, noteComplementPromises, fetches,
                   evictions, triggered, raised, last, steps, loaderVars>>

\* the sync batches of the payload cache's specification
PayloadSyncRows ==
    {[entityName |-> "note_contents", entityId |-> n, sourceId |-> "src"] :
        n \in PayloadNoteIds} \cup NoteRevisionEvents

PayloadSyncBatches == SeqsUpTo(PayloadSyncRows, MaxSyncRows)

ProcessPayloadSyncRows ==
    /\ steps < MaxPayloadSteps
    /\ ProcessSyncRowsOf(PayloadSyncBatches)

PayloadNext == GetNoteComplement \/ ResolveFetch \/ ProcessPayloadSyncRows

SpecPayload == Init /\ [][PayloadNext]_vars

----------------------------------------------------------------------------
(* The server of the lazy loader: a tree of four notes, one of them a      *)
(* search note, whose note A the server may move to another parent         *)

MaxTasks == 2
MaxIds == 2

SearchRow(noteId) == [noteId |-> noteId, type |-> "search", title |-> "t1"]

ServerNoteRows ==
    <<NoteRow("P1", "t1"), NoteRow("P2", "t1"), NoteRow("A", "t1"), SearchRow("S")>>

\* the move of A from P1 to P2 replaces branch B1 by branch B2
ServerBranchRows(moved) ==
    <<BranchRow("BS", "S", "P1", 10), BranchRow("BP", "P2", "P1", 20),
      IF moved THEN BranchRow("B2", "A", "P2", 10) ELSE BranchRow("B1", "A", "P1", 30)>>

ServerAttributeRows == <<LabelRow("LS", "S")>>

\* server.post('tree/load', {noteIds}): the notes, the branches that touch
\* them, their attributes
TreeLoad(moved, noteIds) ==
    LET found == {r.noteId : r \in {ServerNoteRows[i] : i \in 1..Len(ServerNoteRows)}}
                    \cap Elems(noteIds)
    IN [notes |-> SelectSeq(ServerNoteRows, LAMBDA r : r.noteId \in found),
        branches |-> SelectSeq(ServerBranchRows(moved),
                               LAMBDA b : b.noteId \in found \/ b.parentNoteId \in found),
        attributes |-> SelectSeq(ServerAttributeRows, LAMBDA r : r.noteId \in found)]

\* server.get('search-note/' + noteId): the notes found, each with one of its branches
SearchNote(moved, noteId) ==
    IF noteId = "S"
    THEN <<[noteId |-> "P2", branchId |-> "BP"],
           [noteId |-> "A", branchId |-> IF moved THEN "B2" ELSE "B1"]>>
    ELSE <<>>

----------------------------------------------------------------------------
(* The lazy loader: reloadNotes, lines 118-155, and getNotes, lines 158-173 *)

\* a call that waits for the server: the getNotes call it belongs to (0 for
\* a reloadNotes call made from outside), what it waits for, the ids it asked
\* for, the response to that, the note row the loop of line 129 is at, and
\* the search results for it
Frame(call, noteIds) ==
    [call |-> call, pc |-> "load", request |-> noteIds,
     resp |-> [notes |-> <<>>, branches |-> <<>>, attributes |-> <<>>],
     i |-> 0, results |-> <<>>]

\* what one step of a task works on
Context(st, stack, reqs, calls) ==
    [st |-> st, stack |-> stack, requests |-> reqs, calls |-> calls,
     status |-> "waiting", error |-> "none"]

Request(call, url, noteIds) == [call |-> call, url |-> url, noteIds |-> noteIds]

\* line 123: Array.from(new Set(noteIds))
RECURSIVE Unique(_)
Unique(noteIds) ==
    IF noteIds = <<>> THEN <<>>
    ELSE <<Head(noteIds)>> \o Unique(Without(Tail(noteIds), Head(noteIds)))

\* reloadNotes that sends the ids as they come
SendAll(noteIds) == noteIds

\* lines 119-125: the ids reloadNotes sends to the server
LoadRequest(noteIds) == Unique(noteIds)

\* MissingNoteIds that takes every id for missing
EveryNoteId(nts, noteIds) == noteIds

\* line 159: noteIds.filter(noteId => !this.notes[noteId])
MissingNoteIds(nts, noteIds) == SelectSeq(noteIds, LAMBDA n : n \notin DOMAIN nts)

\* lines 118-125: reloadNotes up to its first await
StartReloadNotes(ctx, call, noteIds) ==
    IF noteIds = <<>> THEN ctx
    ELSE [ctx EXCEPT
            !.stack = Append(@, Frame(call, LoadRequest(noteIds))),
            !.requests = Append(@, Request(call, "tree/load", LoadRequest(noteIds)))]

\* lines 158-161: getNotes up to its first await
StartGetNotes(ctx, noteIds) ==
    LET call == Len(ctx.calls) + 1
        c1 == [ctx EXCEPT !.calls =
                  Append(@, [noteIds |-> noteIds, resident |-> DOMAIN ctx.st.notes])]
    IN StartReloadNotes(c1, call, MissingNoteIds(ctx.st.notes, noteIds))

\* lines 163-172: what getNotes returns
GetNotesResult(nts, noteIds) == SelectSeq(noteIds, LAMBDA n : n \in DOMAIN nts)

\* VirtualBranch with an id made of the result's place in the list
VirtualBranchByIndex(brs, result, note, index) ==
    [branchId |-> "virt" \o ToString(index) \o "-" \o note.noteId,
     noteId |-> result.noteId,
     parentNoteId |-> note.noteId,
     prefix |-> brs[result.branchId].prefix,
     notePosition |-> (index + 1) * 10]

\* lines 142-149: the virtual branch of one search result
VirtualBranch(brs, result, note, index) ==
    [branchId |-> "virt" \o result.noteId \o "-" \o note.noteId,
     noteId |-> result.noteId,
     parentNoteId |-> note.noteId,
     prefix |-> brs[result.branchId].prefix,
     notePosition |-> (index + 1) * 10]

\* the frame on top of the stack
Top(ctx) == ctx.stack[Len(ctx.stack)]

SetTop(ctx, frame) == [ctx EXCEPT !.stack[Len(ctx.stack)] = frame]

Fail(ctx, error) == [ctx EXCEPT !.status = "failed", !.error = error, !.stack = <<>>]

RECURSIVE LoopFrom(_, _), MaterializeSearch(_)

\* lines 129-154: the loop over resp.notes from index i on; at its end
\* reloadNotes and the getNotes that called it return to their caller
LoopFrom(ctx, i) ==
    LET top == Top(ctx)
    IN IF i > Len(top.resp.notes)
       THEN LET popped == [ctx EXCEPT !.stack = SubSeq(@, 1, Len(@) - 1)]
            IN IF popped.stack = <<>> THEN [popped EXCEPT !.status = "done"]
               ELSE MaterializeSearch(popped)
       ELSE IF top.resp.notes[i].type = "search"
            THEN [SetTop(ctx, [top EXCEPT !.pc = "search", !.i = i]) EXCEPT
                     !.requests = Append(@, Request(top.call, "search-note",
                                                    <<top.resp.notes[i].noteId>>))]
            ELSE LoopFrom(ctx, i + 1)

\* lines 140-152: after the search results are loaded, the search note is
\* merged again with its own branches and one virtual branch per result;
\* getBranch of a branch that is not in the store is undefined, and reading
\* .prefix of it raises
MaterializeSearch(ctx) ==
    LET top == Top(ctx)
        note == top.resp.notes[top.i]
        own == SelectSeq(top.resp.branches,
                         LAMBDA b : b.noteId = note.noteId \/ b.parentNoteId = note.noteId)
    IN IF \E k \in 1..Len(top.results) :
              top.results[k].branchId \notin DOMAIN ctx.st.branches
       THEN Fail(ctx, "TypeError")
       ELSE LET virtual == [k \in 1..Len(top.results) |->
                               VirtualBranch(ctx.st.branches, top.results[k], note, k - 1)]
            IN LoopFrom([ctx EXCEPT !.st = addResp(@, <<note>>, own \o virtual, <<>>)],
                        top.i + 1)

\* lines 125-129: the response to tree/load arrives and is merged
OnLoadResponse(ctx, resp) ==
    LET st == addResp(ctx.st, resp.notes, resp.branches, resp.attributes)
        c1 == [SetTop(ctx, [Top(ctx) EXCEPT !.resp = resp]) EXCEPT !.st = st]
    IN IF st.raised THEN Fail(c1, "TypeError") ELSE LoopFrom(c1, 1)

\* lines 131-138: the search results arrive, and the notes found are loaded
OnSearchResponse(ctx, searchResults) ==
    LET c1 == SetTop(ctx, [Top(ctx) EXCEPT !.results = searchResults])
        ids == [k \in 1..Len(searchResults) |-> searchResults[k].noteId]
        c2 == StartGetNotes(c1, ids)
    IN IF Len(c2.stack) > Len(c1.stack) THEN c2 ELSE MaterializeSearch(c2)

\* getBranch, lines 207-216: nothing is returned for a branch that is not in the store
getBranch(brs, branchId) ==
    IF branchId \notin DOMAIN brs THEN [is |-> "undefined", branchId |-> branchId]
    ELSE [is |-> "branch", branchId |-> branchId]

\* getBranches, lines 200-204: .filter(b => b !== null)
getBranches(brs, branchIds) ==
    SelectSeq([k \in 1..Len(branchIds) |-> getBranch(brs, branchIds[k])],
              LAMBDA b : b.is # "null")

----------------------------------------------------------------------------
(* The calls of the lazy loader and the answers of the server *)

LoadIds == {"S", "Z"}

GetNotesArgs == SeqsUpTo(LoadIds, MaxIds)

ReloadNotesArgs == {<<>>, <<"S">>}

LookupIds == {"B1", "virtA-S"}

Task(fn, noteIds, ctx) ==
    [fn |-> fn, noteIds |-> noteIds, stack |-> ctx.stack,
     status |-> IF ctx.stack = <<>> /\ ctx.status = "waiting" THEN "done" ELSE ctx.status,
     error |-> ctx.error,
     result |-> IF fn = "getNotes" /\ ctx.stack = <<>> /\ ctx.status # "failed"
                THEN GetNotesResult(ctx.st.notes, noteIds) ELSE <<>>,
     searched |-> <<>>,
     searchBranchIds |-> {}]

\* the store, the log of requests and the log of calls after a step of a task
Apply(ctx) ==
    /\ notes' = ctx.st.notes
    /\ branches' = ctx.st.branches
    /\ attributes' = ctx.st.attributes
    /\ requests' = ctx.requests
    /\ getNotesCalls' = ctx.calls

NewContext == Context(CurrentStore, <<>>, requests, getNotesCalls)

\* getNotes(noteIds) is called
CallGetNotes ==
    /\ Len(tasks) < MaxTasks
    /\ \E noteIds \in GetNotesArgs :
        LET ctx == StartGetNotes(NewContext, noteIds)
        IN /\ Apply(ctx)
           /\ tasks' = Append(tasks, Task("getNotes", noteIds, ctx))
           /\ last' = [op |-> "getNotes", task |-> Len(tasks) + 1]
    /\ raised' = FALSE
    /\ UNCHANGED <<payloadVars, serverMoved, triggered, steps>>

\* reloadNotes(noteIds) is called
CallReloadNotes ==
    /\ Len(tasks) < MaxTasks
    /\ \E noteIds \in ReloadNotesArgs :
        LET ctx == StartReloadNotes(NewContext, 0, noteIds)
        IN /\ Apply(ctx)
           /\ tasks' = Append(tasks, Task("reloadNotes", noteIds, ctx))
           /\ last' = [op |-> "reloadNotes", task |-> Len(tasks) + 1]
    /\ raised' = FALSE
    /\ UNCHANGED <<payloadVars, serverMoved, triggered, steps>>

\* the ids of the branches of the store that lead to the children of a note
BranchesUnder(brs, noteId) == {b \in DOMAIN brs : brs[b].parentNoteId = noteId}

\* a task after a step: what it waits for next, or how it ended
Resumed(task, ctx) ==
    [task EXCEPT
       !.stack = ctx.stack,
       !.status = ctx.status,
       !.error = ctx.error,
       !.result = IF task.fn = "getNotes" /\ ctx.status = "done"
                  THEN GetNotesResult(ctx.st.notes, task.noteIds) ELSE <<>>,
       !.searchBranchIds = IF ctx.status = "done"
                           THEN BranchesUnder(ctx.st.branches, "S") ELSE {}]

TaskContext(t) == Context(CurrentStore, tasks[t].stack, requests, getNotesCalls)

Waiting(t, pc) ==
    /\ tasks[t].status = "waiting"
    /\ tasks[t].stack[Len(tasks[t].stack)].pc = pc

\* the server answers a tree/load request
LoadResponse ==
    /\ \E t \in 1..Len(tasks) :
        /\ Waiting(t, "load")
        /\ LET ctx == OnLoadResponse(
                          TaskContext(t),
                          TreeLoad(serverMoved, tasks[t].stack[Len(tasks[t].stack)].request))
           IN /\ Apply(ctx)
              /\ tasks' = [tasks EXCEPT ![t] = Resumed(tasks[t], ctx)]
              /\ raised' = (ctx.error = "TypeError")
              /\ last' = [op |-> "loadResponse", task |-> t]
    /\ UNCHANGED <<payloadVars, serverMoved, triggered, steps>>

\* the server answers a search-note request with the notes found
SearchResponse ==
    /\ \E t \in 1..Len(tasks) :
        /\ Waiting(t, "search")
        /\ LET top == tasks[t].stack[Len(tasks[t].stack)]
               searchResults == SearchNote(serverMoved, top.resp.notes[top.i].noteId)
               ctx == OnSearchResponse(TaskContext(t), searchResults)
           IN /\ Apply(ctx)
              /\ tasks' = [tasks EXCEPT ![t] =
                              [Resumed(tasks[t], ctx) EXCEPT
                                  !.searched = Append(@, searchResults)]]
              /\ raised' = (ctx.error = "TypeError")
              /\ last' = [op |-> "searchResponse", task |-> t]
    /\ UNCHANGED <<payloadVars, serverMoved, triggered, steps>>

\* lines 133-135: the server answers a search-note request with nothing
SearchFails ==
    /\ \E t \in 1..Len(tasks) :
        /\ Waiting(t, "search")
        /\ tasks' = [tasks EXCEPT ![t] = Resumed(tasks[t], Fail(TaskContext(t), "Error"))]
        /\ last' = [op |-> "searchFails", task |-> t]
    /\ raised' = FALSE
    /\ UNCHANGED <<notes, branches, attributes, requests, getNotesCalls, payloadVars,
                   serverMoved, triggered, steps>>

\* the server moves note A from P1 to P2
ServerMove ==
    /\ ~serverMoved
    /\ serverMoved' = TRUE
    /\ UNCHANGED <<notes, branches, attributes, payloadVars, tasks, requests,
                   getNotesCalls, triggered, raised, last, steps>>

\* getBranches(branchIds) is called
GetBranches ==
    /\ \E branchIds \in SeqsUpTo(LookupIds, 1) :
        last' = [op |-> "getBranches", branchIds |-> branchIds,
                 result |-> getBranches(branches, branchIds)]
    /\ raised' = FALSE
    /\ UNCHANGED <<notes, branches, attributes, payloadVars, loaderVars, triggered, steps>>

\* after construction the store holds what the server's tree holds of the root
LoadInit ==
    \E noteIds \in {<<>>, <<"P1">>} :
        LET tree == TreeLoad(FALSE, noteIds)
            st == addResp(EmptyStore, tree.notes, tree.branches, tree.attributes)
        IN /\ notes = st.notes
           /\ branches = st.branches
           /\ attributes = st.attributes
           /\ raised = st.raised
           /\ noteComplementPromises = <<>>
           /\ fetches = NoFetches
           /\ evictions = NoFetches
           /\ pendingFetches = {}
           /\ payloadCalls = <<>>
           /\ tasks = <<>>
           /\ requests = <<>>
           /\ getNotesCalls = <<>>
           /\ serverMoved = FALSE
           /\ triggered = <<>>
           /\ last = [op |-> "loadInitialTree"]
           /\ steps = 0

LoadNext ==
    \/ CallGetNotes
    \/ CallReloadNotes
    \/ LoadResponse
    \/ SearchResponse
    \/ SearchFails
    \/ ServerMove
    \/ GetBranches

SpecLoad == LoadInit /\ [][LoadNext]_vars

----------------------------------------------------------------------------
(* The lazy loader against a server whose search notes find themselves and *)
(* each other: S1 finds S1 and S2, S2 finds S1                             *)

SearchNoteIds == {"S1", "S2"}

CycleNoteRows == <<NoteRow("R", "t1"), SearchRow("S1"), SearchRow("S2")>>

CycleBranchRows == <<BranchRow("BS1", "S1", "R", 10), BranchRow("BS2", "S2", "R", 20)>>

\* server.post('tree/load', {noteIds})
CycleTreeLoad(noteIds) ==
    [notes |-> SelectSeq(CycleNoteRows, LAMBDA r : r.noteId \in Elems(noteIds)),
     branches |-> SelectSeq(CycleBranchRows,
                            LAMBDA b : b.noteId \in Elems(noteIds)
                                          \/ b.parentNoteId \in Elems(noteIds)),
     attributes |-> <<>>]

\* server.get('search-note/' + noteId)
CycleSearchNote(noteId) ==
    IF noteId = "S1"
    THEN <<[noteId |-> "S1", branchId |-> "BS1"], [noteId |-> "S2", branchId |-> "BS2"]>>
    ELSE <<[noteId |-> "S1", branchId |-> "BS1"]>>

\* getNotes(noteIds) is called for search notes
CallGetNotesOfSearch ==
    /\ Len(tasks) < MaxTasks
    /\ \E noteIds \in SeqsUpTo(SearchNoteIds, MaxIds) :
        LET ctx == StartGetNotes(NewContext, noteIds)
        IN /\ Apply(ctx)
           /\ tasks' = Append(tasks, Task("getNotes", noteIds, ctx))
           /\ last' = [op |-> "getNotes", task |-> Len(tasks) + 1]
    /\ raised' = FALSE
    /\ UNCHANGED <<payloadVars, serverMoved, triggered, steps>>

\* the server answers a tree/load request
CycleLoadResponse ==
    /\ \E t \in 1..Len(tasks) :
        /\ Waiting(t, "load")
        /\ \E ctx \in {OnLoadResponse(
                            TaskContext(t),
                            CycleTreeLoad(tasks[t].stack[Len(tasks[t].stack)].request))} :
              /\ Apply(ctx)
              /\ tasks' = [tasks EXCEPT ![t] = Resumed(tasks[t], ctx)]
              /\ raised' = (ctx.error = "TypeError")
              /\ last' = [op |-> "loadResponse", task |-> t]
    /\ UNCHANGED <<payloadVars, serverMoved, triggered, steps>>

\* the server answers a search-note request with the notes found
CycleSearchResponse ==
    /\ \E t \in 1..Len(tasks) :
        /\ Waiting(t, "search")
        /\ \E searchResults \in
                 {CycleSearchNote(tasks[t].stack[Len(tasks[t].stack)].resp.notes[
                                      tasks[t].stack[Len(tasks[t].stack)].i].noteId)} :
              \E ctx \in {OnSearchResponse(TaskContext(t), searchResults)} :
                 /\ Apply(ctx)
                 /\ tasks' = [tasks EXCEPT ![t] =
                                 [Resumed(tasks[t], ctx) EXCEPT
                                     !.searched = Append(@, searchResults)]]
                 /\ raised' = (ctx.error = "TypeError")
                 /\ last' = [op |-> "searchResponse", task |-> t]
    /\ UNCHANGED <<payloadVars, serverMoved, triggered, steps>>

\* after construction the store is empty or holds the root R
CycleInit ==
    \E noteIds \in {<<>>, <<"R">>} :
        LET tree == CycleTreeLoad(noteIds)
            st == addResp(EmptyStore, tree.notes, tree.branches, tree.attributes)
        IN /\ notes = st.notes
           /\ branches = st.branches
           /\ attributes = st.attributes
           /\ raised = st.raised
           /\ noteComplementPromises = <<>>
           /\ fetches = NoFetches
           /\ evictions = NoFetches
           /\ pendingFetches = {}
           /\ payloadCalls = <<>>
           /\ tasks = <<>>
           /\ requests = <<>>
           /\ getNotesCalls = <<>>
           /\ serverMoved = FALSE
           /\ triggered = <<>>
           /\ last = [op |-> "loadInitialTree"]
           /\ steps = 0

CycleNext ==
    \/ CallGetNotesOfSearch
    \/ CycleLoadResponse
    \/ CycleSearchResponse
    \/ SearchFails

\* a call waits for the answer to a request of the kind
Pending(pc) == \E t \in 1..Len(tasks) : Waiting(t, pc)

\* every request is answered in the end, a tree/load request with the rows,
\* a search-note request with the notes found or with nothing: weak
\* fairness of the answers, WF_vars(A) being []<>~ENABLED <<A>>_vars or
\* []<><<A>>_vars, with ENABLED written as the guard of the answer
SpecSearch ==
    /\ CycleInit
    /\ [][CycleNext]_vars
    /\ ([]<>~Pending("load") \/ []<><<CycleLoadResponse>>_vars)
    /\ ([]<>~Pending("search") \/ []<><<CycleSearchResponse \/ SearchFails>>_vars)

----------------------------------------------------------------------------
(* Comparing two stores as graphs *)

Count(s, x) == Cardinality({i \in 1..Len(s) : s[i] = x})

\* two arrays hold the same elements the same number of times
SameEntries(s, t) ==
    /\ Len(s) = Len(t)
    /\ \A x \in Elems(s) \cup Elems(t) : Count(s, x) = Count(t, x)

SameNote(n, m) ==
    /\ n.noteId = m.noteId /\ n.type = m.type /\ n.title = m.title
    /\ SameEntries(n.parents, m.parents)
    /\ SameEntries(n.children, m.children)
    /\ n.parentToBranch = m.parentToBranch
    /\ n.childToBranch = m.childToBranch
    /\ SameEntries(n.attributes, m.attributes)
    /\ SameEntries(n.targetRelations, m.targetRelations)

SameGraph(s, t) ==
    /\ DOMAIN s.notes = DOMAIN t.notes
    /\ \A n \in DOMAIN s.notes : SameNote(s.notes[n], t.notes[n])
    /\ s.branches = t.branches
    /\ s.attributes = t.attributes

----------------------------------------------------------------------------
(* Claims *)

\* C1: every branch of the store whose parent note and child note are both
\* resident is mirrored in the adjacency: the parent's children hold the
\* child and the child's parents hold the parent.
C1_BranchesMirrored ==
    \A b \in DOMAIN branches :
        (branches[b].noteId \in DOMAIN notes /\ branches[b].parentNoteId \in DOMAIN notes)
        => /\ Includes(notes[branches[b].parentNoteId].children, branches[b].noteId)
           /\ Includes(notes[branches[b].noteId].parents, branches[b].parentNoteId)

\* C2: merging the batch that addResp has just merged once more gives the
\* same graph: the same resident notes, branch store, adjacency, branch
\* mappings and attribute indices, and the same outcome.
C2_AddRespIdempotent ==
    last.op = "addResp" =>
        LET again == addResp(CurrentStore, last.batch.noteRows, last.batch.branchRows,
                             last.batch.attributeRows)
        IN SameGraph(again, CurrentStore) /\ again.raised = raised

\* a merge that replaced a note, wired it to a parent and indexed an attribute
C2_Witness ==
    /\ last.op = "addResp" /\ ~raised /\ steps > 1
    /\ last.batch.noteRows # <<>> /\ last.batch.branchRows # <<>>
    /\ last.batch.attributeRows # <<>>
    /\ \E n \in DOMAIN notes : notes[n].parents # <<>> /\ notes[n].attributes # <<>>

\* C3: a batch with a note row for A and a branch row B2 linking A to P2,
\* without B1, merged into a store where A is wired to parent P1 through
\* B1, leaves A with the parent list [P2] and B1 out of the branch store.
C3_DetachBeforeAttach ==
    [][last'.op = "addResp" =>
        \A a, p1, p2 \in NoteIds, b1, b2 \in BranchIds :
            ( /\ p1 # p2 /\ b1 # b2
              /\ a \in DOMAIN notes
              /\ Includes(notes[a].parents, p1)
              /\ p1 \in DOMAIN notes[a].parentToBranch
              /\ notes[a].parentToBranch[p1] = b1
              /\ b1 \in DOMAIN branches
              /\ branches[b1].noteId = a /\ branches[b1].parentNoteId = p1
              /\ \E i \in 1..Len(last'.batch.noteRows) : last'.batch.noteRows[i].noteId = a
              /\ \E i \in 1..Len(last'.batch.branchRows) :
                    last'.batch.branchRows[i] = BranchRow(b2, a, p2, 10)
              /\ \A i \in 1..Len(last'.batch.branchRows) :
                    /\ last'.batch.branchRows[i].branchId # b1
                    /\ last'.batch.branchRows[i].noteId = a
                       => last'.batch.branchRows[i].parentNoteId = p2 )
            => /\ notes'[a].parents = <<p2>>
               /\ b1 \notin DOMAIN branches']_vars

\* the batch holds the same events in another order, the events of each kind
\* in the same order among themselves
SameBuckets(r1, r2) == \A k \in Elems(KindOrder) : OfKind(r1, k) = OfKind(r2, k)

Reorderings(rows) ==
    IF rows = <<>> THEN {rows}
    ELSE {[i \in 1..Len(rows) |-> rows[p[i]]] : p \in Permutations(1..Len(rows))}

\* C4: a batch holding the same events, those of different kinds interleaved
\* differently, gives the same final store and payload cache as the batch
\* processSyncRows has just handled.
C4_FixedKindOrder ==
    [][last'.op = "processSyncRows" =>
        \A other \in Reorderings(last'.syncRows) :
            SameBuckets(other, last'.syncRows) =>
                LET sy == processSyncRows(
                              SyncState(CurrentStore, noteComplementPromises, evictions),
                              other)
                IN /\ sy.notes = notes'
                   /\ sy.branches = branches'
                   /\ sy.attributes = attributes'
                   /\ sy.promises = noteComplementPromises']_vars

\* a reordering event that arrived before the event creating its branch, and
\* was applied to that branch all the same
C4_Witness ==
    /\ last.op = "processSyncRows" /\ Len(last.syncRows) = 2
    /\ last.syncRows[1].entityName = "note_reordering"
    /\ last.syncRows[2].entityName = "branches"
    /\ last.syncRows[2].entityId = "B1" /\ ~last.syncRows[2].entity.isDeleted
    /\ "B1" \in DOMAIN branches /\ branches["B1"].notePosition = 20

\* the non-deleted branch events of a batch for a branch, all with a
\* non-resident child note and a non-resident parent note
Unanchored(syncRows, branchId, nts) ==
    /\ \E i \in 1..Len(syncRows) :
          syncRows[i].entityName = "branches" /\ syncRows[i].entityId = branchId
    /\ \A i \in 1..Len(syncRows) :
          (syncRows[i].entityName = "branches" /\ syncRows[i].entityId = branchId)
          => /\ ~syncRows[i].entity.isDeleted
             /\ syncRows[i].entity.noteId \notin DOMAIN nts
             /\ syncRows[i].entity.parentNoteId \notin DOMAIN nts

\* C5: a non-deleted branch event for a branch that is not in the store,
\* with a non-resident child note and a non-resident parent note, adds no
\* branch to the branch store and no note to the note store.
C5_BoundedGraphSync ==
    [][last'.op = "processSyncRows" =>
        /\ DOMAIN notes' = DOMAIN notes
        /\ \A b \in BranchIds :
              (b \notin DOMAIN branches /\ Unanchored(last'.syncRows, b, notes))
              => b \notin DOMAIN branches']_vars

\* such an event was handled
C5_Witness ==
    /\ last.op = "processSyncRows"
    /\ \E b \in BranchIds : b \notin DOMAIN branches /\ Unanchored(last.syncRows, b, notes)

\* C8: a processSyncRows call hands exactly one change-set to the observers,
\* and that change-set holds the entries of the whole batch, the last pass
\* included.
C8_OneChangeSet ==
    last.op = "processSyncRows" =>
        /\ Len(triggered) = 1
        /\ Len(triggered[1].noteRevisions) = Len(OfKind(last.syncRows, "note_revisions"))
        /\ Len(triggered[1].noteContents) = Len(OfKind(last.syncRows, "note_contents"))
        /\ Len(triggered[1].noteReorderings) = Len(OfKind(last.syncRows, "note_reordering"))

\* an empty batch was handled, and an empty change-set went out
C8_Witness ==
    /\ last.op = "processSyncRows" /\ last.syncRows = <<>>
    /\ triggered = <<LoadResults>>

\* the batch holds a note-content event for the note
Evicts(syncRows, noteId) ==
    \E i \in 1..Len(syncRows) :
        syncRows[i].entityName = "note_contents" /\ syncRows[i].entityId = noteId

LoadsOf(call) ==
    {k \in 1..Len(requests) : requests[k].call = call /\ requests[k].url = "tree/load"}

\* the ids of a getNotes call that were not resident when it started
MissingAtStart(call) ==
    Elems(getNotesCalls[call].noteIds) \ getNotesCalls[call].resident

\* C9, as claimed: every getNotes call sends exactly one tree/load request,
\* for the ids that were not resident at its start, each once.
C9_ExactlyOneLoad ==
    \A c \in 1..Len(getNotesCalls) :
        /\ Cardinality(LoadsOf(c)) = 1
        /\ \A k \in LoadsOf(c) :
              NoDup(requests[k].noteIds) /\ Elems(requests[k].noteIds) = MissingAtStart(c)

\* C9, amended: a getNotes call sends no tree/load request when all its ids
\* are resident at its start, and otherwise exactly one, for the ids that
\* were not resident, each once.
C9_AtMostOneLoad ==
    \A c \in 1..Len(getNotesCalls) :
        /\ Cardinality(LoadsOf(c)) = IF MissingAtStart(c) = {} THEN 0 ELSE 1
        /\ \A k \in LoadsOf(c) :
              NoDup(requests[k].noteIds) /\ Elems(requests[k].noteIds) = MissingAtStart(c)

\* a call given a missing id twice has asked for it once
C9_Witness ==
    \E c \in 1..Len(getNotesCalls) :
        /\ Len(getNotesCalls[c].noteIds) = 2
        /\ getNotesCalls[c].noteIds[1] = getNotesCalls[c].noteIds[2]
        /\ \E k \in LoadsOf(c) : Len(requests[k].noteIds) = 1

\* a reloadNotes(["S"]) call that has run to its end
ReloadedSearch(t) ==
    /\ tasks[t].fn = "reloadNotes" /\ tasks[t].noteIds = <<"S">>
    /\ tasks[t].status = "done"

\* C7: when a reload of the search note S ends, the branches under S are
\* the virtual branches "virt" + result note id + "-" + S of the results it
\* got, the children of S are the result notes, each once, and another
\* reload of S that got the same results ended with the same branch ids.
C7_VirtualBranchesRepeatable ==
    (last.op \in {"loadResponse", "searchResponse"} /\ ReloadedSearch(last.task)) =>
        LET task == tasks[last.task]
            results == task.searched[Len(task.searched)]
        IN /\ BranchesUnder(branches, "S")
                = {"virt" \o results[k].noteId \o "-" \o "S" : k \in 1..Len(results)}
           /\ task.searchBranchIds = BranchesUnder(branches, "S")
           /\ NoDup(notes["S"].children)
           /\ Elems(notes["S"].children) = {results[k].noteId : k \in 1..Len(results)}
           /\ \A u \in 1..Len(tasks) :
                 (ReloadedSearch(u) /\ tasks[u].searched = task.searched)
                 => tasks[u].searchBranchIds = task.searchBranchIds

\* the second of two reloads of S with the same results has ended
C7_Witness ==
    /\ Len(tasks) = 2 /\ last.op = "searchResponse" /\ last.task = 2
    /\ ReloadedSearch(1) /\ ReloadedSearch(2)
    /\ tasks[1].searched = tasks[2].searched
    /\ Len(notes["S"].children) = 2

\* C10: a lookup of ids that are missing from the store does not raise and
\* returns no missing entry: getBranches returns branches of the store only,
\* getNotes returns resident notes only, and no call ends in the TypeError
\* of a missing branch.
C10_MissingIdsTolerated ==
    /\ last.op = "getBranches" =>
          \A k \in 1..Len(last.result) :
              last.result[k].is = "branch" /\ last.result[k].branchId \in DOMAIN branches
    /\ \A t \in 1..Len(tasks) :
          /\ \A k \in 1..Len(tasks[t].result) : tasks[t].result[k] \in DOMAIN notes
          /\ tasks[t].error # "TypeError"

\* the one event of a kind in a batch that holds exactly one of that kind
TheOnly(syncRows, kind) == OfKind(syncRows, kind)[1]

\* C11: a deleted-branch event for a branch that is in the store takes the
\* child out of the resident parent's children, the parent out of the
\* resident child's parents and the branch out of the branch store.
C11_DeletedBranchRemoved ==
    [][(last'.op = "processSyncRows" /\ Len(OfKind(last'.syncRows, "branches")) = 1) =>
        LET sync == TheOnly(last'.syncRows, "branches")
        IN (sync.entity.isDeleted /\ sync.entityId \in DOMAIN branches) =>
              /\ sync.entity.noteId \in DOMAIN notes =>
                    ~Includes(notes'[sync.entity.noteId].parents, sync.entity.parentNoteId)
              /\ sync.entity.parentNoteId \in DOMAIN notes =>
                    ~Includes(notes'[sync.entity.parentNoteId].children, sync.entity.noteId)
              /\ sync.entityId \notin DOMAIN branches']_vars

\* C12: a deleted attribute event for an attribute in the store takes its id
\* out of the resident owner's attribute list and, for a relation, out of the
\* resident target's target-relation list; a non-deleted attribute event
\* leaves its id once in the resident owner's attribute list and, for a
\* relation, once in the resident target's target-relation list.
C12_AttributeIndexSync ==
    [][(last'.op = "processSyncRows" /\ Len(OfKind(last'.syncRows, "attributes")) = 1) =>
        LET sync == TheOnly(last'.syncRows, "attributes")
            id == sync.entityId
            owner == sync.entity.noteId
            target == sync.entity.value
            targeted == sync.entity.type = "relation" /\ target \in DOMAIN notes
        IN /\ (sync.entity.isDeleted /\ id \in DOMAIN attributes) =>
                 /\ owner \in DOMAIN notes => ~Includes(notes'[owner].attributes, id)
                 /\ targeted => ~Includes(notes'[target].targetRelations, id)
           /\ ~sync.entity.isDeleted =>
                 /\ owner \in DOMAIN notes => Count(notes'[owner].attributes, id) = 1
                 /\ targeted => Count(notes'[target].targetRelations, id) = 1]_vars

\* C13: after addResp has merged a relation row whose target note is
\* resident, the target's target-relation list holds the attribute id once,
\* and the owner's target-relation list does not hold it unless the owner
\* is the target.
C13_RelationIndexedOnTarget ==
    [][(last'.op = "addResp" /\ ~raised') =>
        \A i \in 1..Len(last'.batch.attributeRows) :
            LET row == last'.batch.attributeRows[i]
            IN (row.type = "relation" /\ row.value \in DOMAIN notes') =>
                  /\ Count(notes'[row.value].targetRelations, row.attributeId) = 1
                  /\ row.noteId # row.value =>
                        ~Includes(notes'[row.noteId].targetRelations, row.attributeId)]_vars

\* C14: addResp does not raise on a row that names a non-resident note, and
\* the merge completes: every branch row and every attribute row of the
\* batch is in the store afterwards.
C14_NonResidentTolerated ==
    last.op = "addResp" =>
        /\ ~raised
        /\ \A i \in 1..Len(last.batch.branchRows) :
              last.batch.branchRows[i].branchId \in DOMAIN branches
        /\ \A i \in 1..Len(last.batch.attributeRows) :
              last.batch.attributeRows[i].attributeId \in DOMAIN attributes

\* an event the reconciler has nothing to do for: a note event for a
\* non-resident note, a deleted-branch event for a branch that is not in
\* the store, a reordering event that names no branch of the store
Ignorable(sync, nts, brs) ==
    \/ sync.entityName = "notes" /\ sync.entityId \notin DOMAIN nts
    \/ /\ sync.entityName = "branches"
       /\ sync.entity.isDeleted /\ sync.entityId \notin DOMAIN brs
    \/ sync.entityName = "note_reordering" /\ DOMAIN sync.positions \cap DOMAIN brs = {}

\* C15: processSyncRows keeps the set of resident notes; its note events
\* change the type and title of a note only, so the notes end with the
\* adjacency and indices the batch gives them without its note events; and
\* a batch of ignorable events leaves notes, branches and attributes as
\* they were and does not raise.
C15_SyncFrame ==
    [][last'.op = "processSyncRows" =>
        LET rest == SelectSeq(last'.syncRows, LAMBDA sync : sync.entityName # "notes")
            sy == processSyncRows(
                      SyncState(CurrentStore, noteComplementPromises, evictions), rest)
        IN /\ DOMAIN notes' = DOMAIN notes
           /\ \A n \in DOMAIN notes :
                 [notes'[n] EXCEPT !.type = "", !.title = ""]
                    = [sy.notes[n] EXCEPT !.type = "", !.title = ""]
           /\ (\A i \in 1..Len(last'.syncRows) :
                  Ignorable(last'.syncRows[i], notes, branches))
              => /\ notes' = notes /\ branches' = branches /\ attributes' = attributes
                 /\ ~raised']_vars

\* a note event has renamed a resident note that has a parent, in a batch
\* whose other event is ignorable
C15_Witness ==
    /\ last.op = "processSyncRows" /\ Len(last.syncRows) = 2
    /\ last.syncRows[1].entityName = "notes"
    /\ last.syncRows[1].entityId \in DOMAIN notes
    /\ notes[last.syncRows[1].entityId].title = "t2"
    /\ notes[last.syncRows[1].entityId].parents # <<>>
    /\ last.syncRows[2].entityName = "branches"
    /\ Ignorable(last.syncRows[2], notes, branches)

\* C17: every parent in a resident note's parents and every child in its
\* children is backed by a branch of the store that links the two notes.
C17_AdjacencyBacked ==
    \A n \in DOMAIN notes :
        /\ \A i \in 1..Len(notes[n].parents) :
              \E b \in DOMAIN branches :
                  branches[b].noteId = n /\ branches[b].parentNoteId = notes[n].parents[i]
        /\ \A i \in 1..Len(notes[n].children) :
              \E b \in DOMAIN branches :
                  branches[b].parentNoteId = n /\ branches[b].noteId = notes[n].children[i]

\* the entries of the change-set for a kind of event
EntriesOf(loadResults, kind) ==
    CASE kind = "notes" -> loadResults.notes
      [] kind = "branches" -> loadResults.branches
      [] kind = "note_reordering" -> loadResults.noteReorderings
      [] kind = "attributes" -> loadResults.attributes
      [] kind = "note_contents" -> loadResults.noteContents
      [] kind = "note_revisions" -> loadResults.noteRevisions

\* C18: an event after which the notes, the branches or the attributes
\* differ has its entity id and source id in the change-set under its kind,
\* and so has the deleted-branch event of a branch that is in the store.
C18_MutationsRecorded ==
    [][(last'.op = "processSyncRows" /\ Len(last'.syncRows) = 1) =>
        LET sync == last'.syncRows[1]
            recorded == Includes(EntriesOf(triggered'[1], sync.entityName), Entry(sync))
        IN /\ (notes' # notes \/ branches' # branches \/ attributes' # attributes)
                 => recorded
           /\ ( /\ sync.entityName = "branches"
                /\ sync.entity.isDeleted /\ sync.entityId \in DOMAIN branches )
                 => recorded]_vars

\* C19: when a reload of the search note S, whose load response carries
\* its attribute rows, has ended, the attribute list of S holds the id of
\* every attribute of the store that S owns.
C19_SearchNoteKeepsAttributes ==
    (last.op \in {"loadResponse", "searchResponse"} /\ ReloadedSearch(last.task)) =>
        \A a \in DOMAIN attributes :
            attributes[a].noteId = "S" => Includes(notes["S"].attributes, a)

\* a call run alone: each request is answered, by the server that has not
\* moved a note, before anything else happens
RECURSIVE RunAlone(_)
RunAlone(ctx) ==
    IF ctx.stack = <<>> THEN ctx
    ELSE LET top == Top(ctx)
         IN IF top.pc = "load"
            THEN RunAlone(OnLoadResponse(ctx, TreeLoad(FALSE, top.request)))
            ELSE RunAlone(OnSearchResponse(
                              ctx, SearchNote(FALSE, top.resp.notes[top.i].noteId)))

\* the store after a single getNotes(noteIds) call made on store st
SingleGetNotes(st, noteIds) == RunAlone(StartGetNotes(Context(st, <<>>, <<>>, <<>>), noteIds)).st

\* the stores the cache can hold after construction
StoresAtStart ==
    {LET tree == TreeLoad(FALSE, noteIds)
     IN addResp(EmptyStore, tree.notes, tree.branches, tree.attributes) :
        noteIds \in {<<>>, <<"P1">>}}

\* two getNotes calls for the non-resident note S that both sent their load
\* request before any response was handled, and have both ended, the
\* server having given the same answers throughout
OverlappedGetNotes ==
    /\ Len(tasks) = 2 /\ ~serverMoved
    /\ \A t \in 1..2 :
          /\ tasks[t].fn = "getNotes" /\ tasks[t].status = "done"
          /\ "S" \in Elems(tasks[t].noteIds)
          /\ "S" \notin getNotesCalls[t].resident
          /\ requests[t] = Request(t, "tree/load", LoadRequest(tasks[t].noteIds))

\* C16: two overlapping getNotes calls for the non-resident note S, given
\* the same responses, end in the graph a single getNotes call for S ends
\* in, whatever the order of their responses: the same notes, branches and
\* attributes, the same entries in every parent, child and attribute list,
\* none of them twice, and every branch between two resident notes wired.
C16_OverlapHarmless ==
    OverlappedGetNotes =>
        /\ \E st \in StoresAtStart :
              /\ DOMAIN st.notes = getNotesCalls[1].resident
              /\ SameGraph(CurrentStore, SingleGetNotes(st, <<"S">>))
        /\ \A n \in DOMAIN notes :
              /\ NoDup(notes[n].parents) /\ NoDup(notes[n].children)
              /\ NoDup(notes[n].attributes) /\ NoDup(notes[n].targetRelations)
        /\ \A b \in DOMAIN branches :
              (branches[b].noteId \in DOMAIN notes
                  /\ branches[b].parentNoteId \in DOMAIN notes)
              => /\ Includes(notes[branches[b].parentNoteId].children, branches[b].noteId)
                 /\ Includes(notes[branches[b].noteId].parents, branches[b].parentNoteId)

\* both calls have ended, the second one's load response having come after
\* the first call had gone on to load the notes found
C16_Witness ==
    /\ OverlappedGetNotes
    /\ "P1" \in DOMAIN notes
    /\ Len(notes["S"].children) = 2
    /\ \E k \in 3..Len(requests) :
          /\ requests[k].url = "tree/load" /\ requests[k].noteIds = <<"P2", "A">>
          /\ \E j \in (k + 1)..Len(requests) :
                requests[j].url = "search-note" /\ requests[j].call = 2

\* C20: against the server whose search notes find themselves and each
\* other, every getNotes call ends, provided every request is answered: a
\* getNotes call asks the server only for ids that were not resident when
\* it started, and the calls waiting inside one another are never more than
\* the notes of the server.
C20_GetNotesTerminates ==
    /\ [](\A c \in 1..Len(getNotesCalls) : \A k \in LoadsOf(c) :
             Elems(requests[k].noteIds) \cap getNotesCalls[c].resident = {})
    /\ [](\A t \in 1..Len(tasks) : Len(tasks[t].stack) <= Len(CycleNoteRows))
    /\ \A t \in 1..MaxTasks :
          (Len(tasks) >= t) ~> (Len(tasks) >= t /\ tasks[t].status # "waiting")

\* a getNotes call for S1 has ended with S1 among its own children, after
\* the getNotes call made inside it has loaded S2 and the one made inside
\* that has found S1 resident
C20_Witness ==
    /\ Len(tasks) = 1 /\ tasks[1].status = "done" /\ tasks[1].noteIds = <<"S1">>
    /\ Len(getNotesCalls) = 3
    /\ getNotesCalls[3].noteIds = <<"S1">> /\ "S1" \in getNotesCalls[3].resident
    /\ {"S1", "S2"} \subseteq DOMAIN notes
    /\ Includes(notes["S1"].children, "S1") /\ Includes(notes["S1"].children, "S2")

====
